---- MODULE Spec2Model ----
(***************************************************************************)
(* Model of the inventory snapshot pipeline (scripts/processSnapshots.ts), *)
(* of the shared diff engine (inventory/src/lib/report.ts), of the upload  *)
(* panel's ingestion (processFile) and of the App's loading (onMount).     *)
(*                                                                         *)
(* Representation choices:                                                 *)
(*  - a quantity is an integer counting ten-thousandths (0.0001), so that  *)
(*    139199 is 13.9199 and roundQuantity maps it to 139200 (13.920);      *)
(*    binary floating point error of the sums is not represented;          *)
(*  - a snapshotDate "YYYY-MM-DD" is the integer YYYYMMDD and an ISO       *)
(*    timestamp is an integer count of clock ticks: localeCompare on       *)
(*    these fixed-width strings is the integer order;                      *)
(*  - a JSON file is the value it holds, wrapped in a sequence: <<>> is a  *)
(*    missing file, <<v>> a file holding v; JSON null is JsonNull;         *)
(*  - the public mirror (inventory/public/data) receives the same writes   *)
(*    as data/ and is not kept as a second copy.                           *)
(***************************************************************************)
EXTENDS Integers, Sequences, FiniteSets, TLC

VARIABLES
    rawDir,            \* data/raw: file name -> <<>> or <<[content, mtime]>>
    indexFile,         \* data/index.json
    snapshotDir,       \* data/snapshots: jsonFileName -> payload
    reportDir,         \* data/reports: jsonFileName -> report
    latestFile,        \* data/latest.json
    latestReportFile,  \* data/latest-report.json
    pc,                \* position of main()
    exitCode,          \* process.exitCode of the most recent run
    existingSnapshots, \* main: const existingSnapshots
    csvFiles,          \* main: const csvFiles
    cursor,            \* main: position of the for loop over csvFiles
    records,           \* main: const records
    reports,           \* main: const reports
    universe,          \* the file names data/raw draws from in this behaviour
    edits,             \* number of changes made to data/raw so far
    runRaw,            \* history: content of data/raw at the most recent run
    lastStatus,        \* history: "none", "running", "ok" or "failed"
    before,            \* history: artifacts and raw content before the most recent run
    probe,             \* diff engine harness: the inputs
    probeOut,          \* diff engine harness: the outputs
    upload,            \* ingestion harness: the file handed to both ingestors
    ingested,          \* ingestion harness: what processCsv made of it
    panel,             \* UploadPanel: errorMessage, warnings, preview
    served,            \* what the web server answers to the App's fetches
    app,               \* App.svelte: its component state
    cache,             \* identity cache harness: the Map of prior snapshots
    takes,             \* identity cache harness: the calls made on it so far
    dropped,           \* UploadPanel: the files handed to processFile, in order
    pending            \* UploadPanel: the calls of processFile awaiting file.text()

vars == <<rawDir, indexFile, snapshotDir, reportDir, latestFile, latestReportFile,
          pc, exitCode, existingSnapshots, csvFiles, cursor, records, reports,
          universe, edits, runRaw, lastStatus, before, probe, probeOut,
          upload, ingested, panel, served, app, cache, takes, dropped, pending>>

pipelineVars == <<rawDir, indexFile, snapshotDir, reportDir, latestFile,
                  latestReportFile, pc, exitCode, existingSnapshots, csvFiles,
                  cursor, records, reports, universe, edits, runRaw, lastStatus,
                  before>>

probeVars == <<probe, probeOut, upload, ingested, panel, served, app, cache, takes,
               dropped, pending>>

reportVars == <<probe, probeOut>>

ingestVars == <<upload, ingested, panel>>

appVars == <<served, app>>

cacheVars == <<cache, takes>>

dropVars == <<dropped, pending>>

-----------------------------------------------------------------------------
(* Bounds *)

MaxTime == 2           \* file modification times range over 0..MaxTime ticks
TicksPerSecond == 2    \* ticks in one second (the resolution the file name keeps)
MaxEdits == 1          \* changes to data/raw after the initial directory
MaxDrops == 2          \* files dropped on the upload panel

Times == 0..MaxTime

-----------------------------------------------------------------------------
(* Generic helpers *)

JsonNull == [null |-> TRUE]

EmptyDir == [x \in {} |-> x]

Put(dir, key, value) ==
    [x \in (DOMAIN dir) \cup {key} |-> IF x = key THEN value ELSE dir[x]]

Front(s) == SubSeq(s, 1, Len(s) - 1)

Last(s) == s[Len(s)]

RECURSIVE SumSeq(_)
SumSeq(s) == IF s = <<>> THEN 0 ELSE s[1] + SumSeq(Tail(s))

Abs(x) == IF x < 0 THEN -x ELSE x

InsertBeforeEqual(sorted, x) ==
    LET n == Cardinality({i \in 1..Len(sorted) : sorted[i][1] < x[1]})
    IN SubSeq(sorted, 1, n) \o <<x>> \o SubSeq(sorted, n + 1, Len(sorted))

\* Array.prototype.sort is stable: s is a sequence of <<key, value>> pairs and
\* the result is in ascending key order, equal keys keeping their order.
InsertStable(sorted, x) ==
    LET n == Cardinality({i \in 1..Len(sorted) : sorted[i][1] <= x[1]})
    IN SubSeq(sorted, 1, n) \o <<x>> \o SubSeq(sorted, n + 1, Len(sorted))

RECURSIVE StableSort(_)
StableSort(s) ==
    IF s = <<>> THEN <<>> ELSE InsertStable(StableSort(Front(s)), Last(s))

Values(s) == [i \in 1..Len(s) |-> s[i][2]]

ReverseKeepsOrder(s) == s

Reverse(s) == [i \in 1..Len(s) |-> s[Len(s) + 1 - i]]

-----------------------------------------------------------------------------
(* Items and quantities *)

\* item names in localeCompare order
NameOrder == <<"A", "B", "C", "D">>

Names == {NameOrder[i] : i \in 1..Len(NameOrder)}

NameRank(n) == CHOOSE i \in 1..Len(NameOrder) : NameOrder[i] = n

\* Number(value.toFixed(3)): the nearest multiple of 0.001, a half rounding
\* away from zero.
roundQuantity(value) ==
    LET r == ((Abs(value) + 5) \div 10) * 10
    IN IF value < 0 THEN -r ELSE r

SortByNameKeepsOrder(items) == items

\* items.sort((a, b) => a.name.localeCompare(b.name))
SortByName(items) ==
    Values(StableSort([i \in 1..Len(items) |-> <<NameRank(items[i].name), items[i]>>]))

calculateTotals(items) ==
    [count |-> Len(items),
     totalQuantity |-> roundQuantity(SumSeq([i \in 1..Len(items) |-> items[i].quantity]))]

\* sha256 over JSON.stringify(items): a digest that is equal exactly when the
\* serialized lists are equal.
hashItems(items) == <<"sha256", items>>

-----------------------------------------------------------------------------
(* Diff engine: buildReport and its helpers *)

NoRecord == <<>>

HasName(items, name) == \E i \in 1..Len(items) : items[i].name = name

\* new Map(items.map((item) => [item.name, item])).get(name): of several
\* items with one name the Map keeps the last.
Lookup(items, name) ==
    items[CHOOSE i \in 1..Len(items) :
            /\ items[i].name = name
            /\ \A j \in (i + 1)..Len(items) : items[j].name # name]

\* deltaOverride is <<>> when the argument is omitted
createChangeEntry(item, previousQuantity, deltaOverride) ==
    [name |-> item.name,
     unit |-> item.unit,
     previousQuantity |-> roundQuantity(previousQuantity),
     quantity |-> roundQuantity(item.quantity),
     delta |-> IF deltaOverride = <<>>
               THEN roundQuantity(item.quantity - previousQuantity)
               ELSE deltaOverride[1]]

RemovedEntryPositiveDelta(item) ==
    [name |-> item.name,
     unit |-> item.unit,
     previousQuantity |-> roundQuantity(item.quantity),
     quantity |-> 0,
     delta |-> roundQuantity(item.quantity)]

RemovedEntry(item) ==
    [name |-> item.name,
     unit |-> item.unit,
     previousQuantity |-> roundQuantity(item.quantity),
     quantity |-> 0,
     delta |-> roundQuantity(-item.quantity)]

\* const delta = roundQuantity(item.quantity - prior.quantity)
DeltaOf(item, previousItems) ==
    roundQuantity(item.quantity - Lookup(previousItems, item.name).quantity)

IsNew(item, previousItems) == ~HasName(previousItems, item.name)

IsIncreaseUnrounded(item, previousItems) ==
    /\ HasName(previousItems, item.name)
    /\ item.quantity - Lookup(previousItems, item.name).quantity > 0

IsIncrease(item, previousItems) ==
    HasName(previousItems, item.name) /\ DeltaOf(item, previousItems) > 0

IsDecrease(item, previousItems) ==
    HasName(previousItems, item.name) /\ DeltaOf(item, previousItems) < 0

IsUnchanged(item, previousItems) ==
    HasName(previousItems, item.name) /\ DeltaOf(item, previousItems) = 0

IsRemovedMissesLast(item, currentItems) ==
    ~HasName(Front(currentItems), item.name)

IsRemoved(item, currentItems) == ~HasName(currentItems, item.name)

\* the four lists in the order the loops push them
Classify(currentItems, previousItems) ==
    LET new == SelectSeq(currentItems, LAMBDA it : IsNew(it, previousItems))
        inc == SelectSeq(currentItems, LAMBDA it : IsIncrease(it, previousItems))
        dec == SelectSeq(currentItems, LAMBDA it : IsDecrease(it, previousItems))
        same == SelectSeq(currentItems, LAMBDA it : IsUnchanged(it, previousItems))
        gone == SelectSeq(previousItems, LAMBDA it : IsRemoved(it, currentItems))
    IN [newItems |-> [i \in 1..Len(new) |-> createChangeEntry(new[i], 0, <<>>)],
        increases |-> [i \in 1..Len(inc) |->
            createChangeEntry(inc[i], Lookup(previousItems, inc[i].name).quantity,
                              <<DeltaOf(inc[i], previousItems)>>)],
        decreases |-> [i \in 1..Len(dec) |->
            createChangeEntry(dec[i], Lookup(previousItems, dec[i].name).quantity,
                              <<DeltaOf(dec[i], previousItems)>>)],
        removedItems |-> [i \in 1..Len(gone) |-> RemovedEntry(gone[i])],
        unchanged |-> Len(same)]

sortChangesKeepsOrder(lists) == lists

sortChanges(lists) ==
    [newItems |-> Values(StableSort(
        [i \in 1..Len(lists.newItems) |->
            <<-lists.newItems[i].quantity, lists.newItems[i]>>])),
     removedItems |-> Values(StableSort(
        [i \in 1..Len(lists.removedItems) |->
            <<-lists.removedItems[i].previousQuantity, lists.removedItems[i]>>])),
     increases |-> Values(StableSort(
        [i \in 1..Len(lists.increases) |->
            <<-lists.increases[i].delta, lists.increases[i]>>])),
     decreases |-> Reverse(Values(StableSort(
        [i \in 1..Len(lists.decreases) |->
            <<Abs(lists.decreases[i].delta), lists.decreases[i]>>]))),
     unchanged |-> lists.unchanged]

\* processSnapshots.ts: previous is NoRecord (null) or <<record>>
buildReport(current, previous) ==
    LET previousItems == IF previous = NoRecord THEN <<>> ELSE previous[1].payload.items
        lists == sortChanges(Classify(current.payload.items, previousItems))
        previousTotalItems ==
            IF previous = NoRecord THEN 0 ELSE previous[1].indexEntry.totalItems
        previousTotalQuantity ==
            IF previous = NoRecord THEN 0 ELSE previous[1].indexEntry.totalQuantity
    IN [meta |-> current.payload.meta,
        totals |-> [items |-> current.indexEntry.totalItems,
                    quantity |-> current.indexEntry.totalQuantity,
                    deltaItems |-> current.indexEntry.totalItems - previousTotalItems,
                    deltaQuantity |-> roundQuantity(
                        current.indexEntry.totalQuantity - previousTotalQuantity)],
        counts |-> [new |-> Len(lists.newItems),
                    removed |-> Len(lists.removedItems),
                    increased |-> Len(lists.increases),
                    decreased |-> Len(lists.decreases),
                    unchanged |-> lists.unchanged],
        newItems |-> lists.newItems,
        removedItems |-> lists.removedItems,
        increases |-> lists.increases,
        decreases |-> lists.decreases]

\* buildReport of report.ts were previousTotals never honoured
libBuildReportFromZero(meta, optItems, optPreviousItems, optPreviousTotals) ==
    LET items == SortByName(optItems)
        previousItems == IF optPreviousItems = <<>> THEN <<>> ELSE optPreviousItems[1]
        previousTotals == [items |-> 0, quantity |-> 0]
        lists == sortChanges(Classify(items, previousItems))
        totals == calculateTotals(items)
    IN [meta |-> meta,
        totals |-> [items |-> totals.count,
                    quantity |-> totals.totalQuantity,
                    deltaItems |-> totals.count - previousTotals.items,
                    deltaQuantity |-> roundQuantity(
                        totals.totalQuantity - previousTotals.quantity)],
        counts |-> [new |-> Len(lists.newItems),
                    removed |-> Len(lists.removedItems),
                    increased |-> Len(lists.increases),
                    decreased |-> Len(lists.decreases),
                    unchanged |-> lists.unchanged],
        newItems |-> lists.newItems,
        removedItems |-> lists.removedItems,
        increases |-> lists.increases,
        decreases |-> lists.decreases]

\* report.ts: previousItems and previousTotals are <<>> when the option is
\* omitted, else <<value>>
libBuildReport(meta, optItems, optPreviousItems, optPreviousTotals) ==
    LET items == SortByName(optItems)
        previousItems == IF optPreviousItems = <<>> THEN <<>> ELSE optPreviousItems[1]
        previousTotals ==
            IF optPreviousTotals = <<>>
            THEN [items |-> calculateTotals(previousItems).count,
                  quantity |-> calculateTotals(previousItems).totalQuantity]
            ELSE optPreviousTotals[1]
        lists == sortChanges(Classify(items, previousItems))
        totals == calculateTotals(items)
    IN [meta |-> meta,
        totals |-> [items |-> totals.count,
                    quantity |-> totals.totalQuantity,
                    deltaItems |-> totals.count - previousTotals.items,
                    deltaQuantity |-> roundQuantity(
                        totals.totalQuantity - previousTotals.quantity)],
        counts |-> [new |-> Len(lists.newItems),
                    removed |-> Len(lists.removedItems),
                    increased |-> Len(lists.increases),
                    decreased |-> Len(lists.decreases),
                    unchanged |-> lists.unchanged],
        newItems |-> lists.newItems,
        removedItems |-> lists.removedItems,
        increases |-> lists.increases,
        decreases |-> lists.decreases]

-----------------------------------------------------------------------------
(* Raw inputs *)

\* names of the files that may be in data/raw, in the order of
\* Array.prototype.sort (UTF-16 code units)
FileOrder == <<"a-stock-items_01_01_2024.csv",
               "b-stock-items_01_01_2024.csv",
               "bad.csv",
               "c-stock-items_01_02_2024.csv">>

Files == {FileOrder[i] : i \in 1..Len(FileOrder)}

\* fileName.match(/stock-items_(\d{2})_(\d{2})_(\d{4})\.csv$/i)
MatchesPattern(fileName) == fileName # "bad.csv"

\* `${year}-${month}-${day}` of a matching name
deriveSnapshotDate(fileName) ==
    CASE fileName = "a-stock-items_01_01_2024.csv" -> 20240101
      [] fileName = "b-stock-items_01_01_2024.csv" -> 20240101
      [] fileName = "c-stock-items_01_02_2024.csv" -> 20240102

Num(v) == [kind |-> "num", val |-> v]

\* the rows csv-parse returns for the file contents the model draws from;
\* Name "" is a missing name, Quantity kind "empty" a missing quantity and
\* kind "text" a quantity Number() does not parse
Contents ==
    <<  <<[Name |-> "B", Unit |-> "kg", Quantity |-> Num(50000)],
          [Name |-> "A", Unit |-> "kg", Quantity |-> Num(100000)],
          [Name |-> "A", Unit |-> "kg", Quantity |-> Num(70000)],
          [Name |-> "C", Unit |-> "kg", Quantity |-> Num(139199)]>>,
        <<[Name |-> "A", Unit |-> "kg", Quantity |-> Num(120000)],
          [Name |-> "", Unit |-> "kg", Quantity |-> Num(50000)],
          [Name |-> "C", Unit |-> "kg", Quantity |-> Num(139203)],
          [Name |-> "B", Unit |-> "kg", Quantity |-> [kind |-> "text", val |-> 0]]>>,
        <<[Name |-> "C", Unit |-> "kg", Quantity |-> Num(139203)],
          [Name |-> "B", Unit |-> "kg", Quantity |-> [kind |-> "text", val |-> 0]],
          [Name |-> "A", Unit |-> "kg", Quantity |-> Num(120000)],
          [Name |-> "", Unit |-> "kg", Quantity |-> Num(50000)]>>,
        <<[Name |-> "", Unit |-> "kg", Quantity |-> Num(50000)],
          [Name |-> "B", Unit |-> "kg", Quantity |-> [kind |-> "text", val |-> 0]]>>  >>

\* the contents the runs over two dates draw from
ContentIds == {1, 2}

\* all of them: the third holds the rows of the second in another order, the
\* fourth no row that is accepted
AllContentIds == 1..Len(Contents)

NoFile == <<>>

BadFile == "bad.csv"

\* a behaviour keeps to two of the well-named files, and the badly named one
FileUniverses ==
    {{f, g, BadFile} : f, g \in {h \in Files : MatchesPattern(h)}} \
        {{f, BadFile} : f \in Files}

FileStates == {<<[content |-> c, mtime |-> t]>> : c \in ContentIds, t \in Times}

\* the directories a behaviour starts from: well-named files only
RawDirs(u) ==
    {d \in [Files -> {NoFile} \cup FileStates] :
        \A f \in Files : d[f] # NoFile => (f \in u /\ MatchesPattern(f))}

\* what a run can read of the directory besides modification times
RawContent(dir) == [f \in Files |-> IF dir[f] = NoFile THEN 0 ELSE dir[f][1].content]

-----------------------------------------------------------------------------
(* processSnapshots.ts: the steps of main *)

NaN == [nan |-> TRUE, value |-> 0]

parseQuantity(raw) ==
    CASE raw.kind = "empty" -> [nan |-> FALSE, value |-> 0]
      [] raw.kind = "num" -> [nan |-> FALSE, value |-> raw.val]
      [] OTHER -> NaN

\* the for loop over rows in processCsv
RECURSIVE AcceptRows(_, _)
AcceptRows(rows, items) ==
    IF rows = <<>> THEN items
    ELSE LET row == Head(rows)
             quantity == parseQuantity(row.Quantity)
         IN IF row.Name = "" THEN AcceptRows(Tail(rows), items)
            ELSE IF HasName(items, row.Name) THEN AcceptRows(Tail(rows), items)
            ELSE IF quantity.nan THEN AcceptRows(Tail(rows), items)
            ELSE AcceptRows(Tail(rows),
                            Append(items, [name |-> row.Name, unit |-> row.Unit,
                                           quantity |-> quantity.value]))

IngestItems(rows) == SortByName(AcceptRows(rows, <<>>))

makeExistingKey(sourceFile, snapshotDate) == <<snapshotDate, sourceFile>>

\* the ISO stamp without its milliseconds
generateSnapshotFileName(snapshotDate, uploadedAt) ==
    <<snapshotDate, uploadedAt \div TicksPerSecond>>

SnapshotPath(jsonFileName) == <<"data", "snapshots", jsonFileName>>

Basename(path) == Last(path)

RECURSIVE LoadEntries(_, _, _)
LoadEntries(entries, dir, map) ==
    IF entries = <<>> THEN map
    ELSE LET entry == Head(entries)
             fileName == Basename(entry.path)
         IN IF fileName \notin DOMAIN dir
            THEN LoadEntries(Tail(entries), dir, map)
            ELSE LET key == makeExistingKey(entry.sourceFile, entry.snapshotDate)
                     record == [key |-> key,
                                hash |-> hashItems(SortByName(dir[fileName].items)),
                                meta |-> [snapshotDate |-> entry.snapshotDate,
                                          uploadedAt |-> entry.uploadedAt,
                                          sourceFile |-> entry.sourceFile],
                                fileName |-> fileName]
                     bucket == IF key \in DOMAIN map THEN map[key] ELSE <<>>
                 IN LoadEntries(Tail(entries), dir, Put(map, key, Append(bucket, record)))

loadExistingSnapshotsAllOrNothing(index, dir) ==
    IF index = <<>> \/ \E i \in 1..Len(index[1]) : Basename(index[1][i].path) \notin DOMAIN dir
    THEN EmptyDir
    ELSE LoadEntries(index[1], dir, EmptyDir)

\* a missing index.json makes readFile throw: the outer catch returns an empty Map
loadExistingSnapshots(index, dir) ==
    IF index = <<>> THEN EmptyDir ELSE LoadEntries(index[1], dir, EmptyDir)

takeExistingSnapshotKeepsEntry(map, key, hash) ==
    IF key \notin DOMAIN map \/ map[key] = <<>>
    THEN [record |-> <<>>, map |-> map]
    ELSE LET hits == {i \in 1..Len(map[key]) : map[key][i].hash = hash}
         IN IF hits = {}
            THEN [record |-> <<>>, map |-> map]
            ELSE [record |-> <<map[key][CHOOSE i \in hits : \A j \in hits : i <= j]>>,
                  map |-> map]

\* [record |-> <<>> (null) or <<record>>, map |-> the Map after the call]
takeExistingSnapshot(map, key, hash) ==
    IF key \notin DOMAIN map \/ map[key] = <<>>
    THEN [record |-> <<>>, map |-> map]
    ELSE LET bucket == map[key]
             hits == {i \in 1..Len(bucket) : bucket[i].hash = hash}
         IN IF hits = {}
            THEN [record |-> <<>>, map |-> map]
            ELSE LET index == CHOOSE i \in hits : \A j \in hits : i <= j
                     rest == SubSeq(bucket, 1, index - 1)
                                 \o SubSeq(bucket, index + 1, Len(bucket))
                 IN [record |-> <<bucket[index]>>,
                     map |-> IF rest = <<>>
                             THEN [k \in (DOMAIN map) \ {key} |-> map[k]]
                             ELSE Put(map, key, rest)]

\* stats.mtime.toISOString()
determineUploadTimestamp(raw, fileName) == raw[fileName][1].mtime

\* processCsv for a file whose name matches the pattern:
\* [record |-> the SnapshotRecord, map |-> existingSnapshots after the call]
processCsv(fileName, map, raw) ==
    LET snapshotDate == deriveSnapshotDate(fileName)
        items == IngestItems(Contents[raw[fileName][1].content])
        taken == takeExistingSnapshot(map, makeExistingKey(fileName, snapshotDate),
                                      hashItems(items))
        reused == taken.record # <<>>
        uploadedAt == IF reused THEN taken.record[1].meta.uploadedAt
                      ELSE determineUploadTimestamp(raw, fileName)
        jsonFileName == IF reused THEN taken.record[1].fileName
                        ELSE generateSnapshotFileName(snapshotDate, uploadedAt)
        totals == calculateTotals(items)
        meta == [snapshotDate |-> snapshotDate, uploadedAt |-> uploadedAt,
                 sourceFile |-> fileName]
    IN [record |-> [payload |-> [meta |-> meta, items |-> items],
                    jsonFileName |-> jsonFileName,
                    indexEntry |-> [snapshotDate |-> snapshotDate,
                                    uploadedAt |-> uploadedAt,
                                    sourceFile |-> fileName,
                                    path |-> SnapshotPath(jsonFileName),
                                    latestForDate |-> FALSE,
                                    totalItems |-> totals.count,
                                    totalQuantity |-> totals.totalQuantity]],
        map |-> taken.map]

\* compareRecords orders by snapshotDate, then uploadedAt: the key is that pair
\* as one integer
OrderKey(meta) == meta.snapshotDate * (MaxTime + 1) + meta.uploadedAt

\* [...records].sort(compareRecords)
SortRecords(recs) ==
    Values(StableSort([i \in 1..Len(recs) |-> <<OrderKey(recs[i].payload.meta), recs[i]>>]))

RECURSIVE SetReports(_, _, _)
SetReports(sorted, i, map) ==
    IF i > Len(sorted) THEN map
    ELSE SetReports(sorted, i + 1,
                    Put(map, sorted[i].jsonFileName,
                        buildReport(sorted[i],
                                    IF i = 1 THEN NoRecord ELSE <<sorted[i - 1]>>)))

computeReports(recs) == SetReports(SortRecords(recs), 1, EmptyDir)

\* the position in recs of the record annotateLatest flags for a date
LatestPositionTakesFirst(recs, date) ==
    CHOOSE i \in 1..Len(recs) :
        /\ recs[i].payload.meta.snapshotDate = date
        /\ \A j \in 1..(i - 1) : recs[j].payload.meta.snapshotDate # date

LatestPosition(recs, date) ==
    LET group == SelectSeq([i \in 1..Len(recs) |-> i],
                           LAMBDA i : recs[i].payload.meta.snapshotDate = date)
        list == StableSort([k \in 1..Len(group) |->
                                <<OrderKey(recs[group[k]].payload.meta), group[k]>>])
    IN Last(list)[2]

annotateLatest(recs) ==
    [i \in 1..Len(recs) |->
        IF LatestPosition(recs, recs[i].payload.meta.snapshotDate) = i
        THEN [recs[i] EXCEPT !.indexEntry.latestForDate = TRUE]
        ELSE recs[i]]

SortedIndexKeepsOrder(entries) == entries

\* the array writeIndex serializes
SortedIndex(entries) ==
    Values(StableSort([i \in 1..Len(entries) |-> <<OrderKey(entries[i]), entries[i]>>]))

RECURSIVE PutReports(_, _, _, _)
PutReports(recs, i, map, dir) ==
    IF i > Len(recs) THEN dir
    ELSE PutReports(recs, i + 1, map,
                    IF recs[i].jsonFileName \in DOMAIN map
                    THEN Put(dir, recs[i].jsonFileName, map[recs[i].jsonFileName])
                    ELSE dir)

findLatestRecordTakesFirst(recs) ==
    IF recs = <<>> THEN NoRecord ELSE <<Head(SortRecords(recs))>>

findLatestRecord(recs) ==
    IF recs = <<>> THEN NoRecord ELSE <<Last(SortRecords(recs))>>

listCsvFiles(raw) == SelectSeq(FileOrder, LAMBDA f : raw[f] # NoFile)

-----------------------------------------------------------------------------
(* The persisted artifacts and the run of main *)

Artifacts ==
    [index |-> indexFile, snapshots |-> snapshotDir, reports |-> reportDir,
     latest |-> latestFile, latestReport |-> latestReportFile]

NoArtifacts ==
    [index |-> <<>>, snapshots |-> EmptyDir, reports |-> EmptyDir,
     latest |-> <<>>, latestReport |-> <<>>]

NoHistory == [arts |-> NoArtifacts, raw |-> [f \in Files |-> 0], status |-> "none"]

\* the process has ended: its memory is gone
Exit(code) ==
    /\ pc' = "idle"
    /\ exitCode' = code
    /\ lastStatus' = IF code = 0 THEN "ok" ELSE "failed"
    /\ existingSnapshots' = EmptyDir
    /\ csvFiles' = <<>>
    /\ cursor' = 1
    /\ records' = <<>>
    /\ reports' = EmptyDir

\* the upload panel as its script block leaves it
PanelInit == [errorMessage |-> "", warnings |-> <<>>, preview |-> <<>>]

\* the App before onMount has run
AppInit ==
    [loading |-> TRUE, errorMessage |-> "", latestMeta |-> <<>>, latestItems |-> <<>>,
     timeline |-> <<>>, report |-> <<>>, hasBaseline |-> FALSE]

NoUpload == upload = <<>> /\ ingested = <<>> /\ panel = PanelInit

NoApp == served = <<>> /\ app = AppInit

NoCache == cache = EmptyDir /\ takes = <<>>

NoDrops == dropped = <<>> /\ pending = {}

Init ==
    /\ universe \in FileUniverses
    /\ rawDir \in RawDirs(universe)
    /\ indexFile = <<>>
    /\ snapshotDir = EmptyDir
    /\ reportDir = EmptyDir
    /\ latestFile = <<>>
    /\ latestReportFile = <<>>
    /\ pc = "idle"
    /\ exitCode = 0
    /\ existingSnapshots = EmptyDir
    /\ csvFiles = <<>>
    /\ cursor = 1
    /\ records = <<>>
    /\ reports = EmptyDir
    /\ edits = 0
    /\ runRaw = [f \in Files |-> 0]
    /\ lastStatus = "none"
    /\ before = NoHistory
    /\ probe = <<>>
    /\ probeOut = <<>>
    /\ NoUpload
    /\ NoApp
    /\ NoCache
    /\ NoDrops

\* a file of data/raw is written (created, rewritten or touched); the run
\* stops at the name of the badly named file, so one content and time stand
\* for all it may hold
PutFile(f, c, t) ==
    /\ pc = "idle"
    /\ edits < MaxEdits
    /\ f \in universe
    /\ f = BadFile => (c = 1 /\ t = 0)
    /\ rawDir[f] # <<[content |-> c, mtime |-> t]>>
    /\ rawDir' = [rawDir EXCEPT ![f] = <<[content |-> c, mtime |-> t]>>]
    /\ edits' = edits + 1
    /\ UNCHANGED <<indexFile, snapshotDir, reportDir, latestFile, latestReportFile,
                   pc, exitCode, existingSnapshots, csvFiles, cursor, records,
                   reports, universe, runRaw, lastStatus, before, probeVars>>

\* a file of data/raw is deleted
RemoveFile(f) ==
    /\ pc = "idle"
    /\ edits < MaxEdits
    /\ rawDir[f] # NoFile
    /\ rawDir' = [rawDir EXCEPT ![f] = NoFile]
    /\ edits' = edits + 1
    /\ UNCHANGED <<indexFile, snapshotDir, reportDir, latestFile, latestReportFile,
                   pc, exitCode, existingSnapshots, csvFiles, cursor, records,
                   reports, universe, runRaw, lastStatus, before, probeVars>>

\* main: ensureDirectories(); loadExistingSnapshots()
LoadExisting ==
    /\ pc = "idle"
    /\ pc' = "loaded"
    /\ existingSnapshots' = loadExistingSnapshots(indexFile, snapshotDir)
    /\ before' = [arts |-> Artifacts, raw |-> runRaw, status |-> lastStatus]
    /\ runRaw' = RawContent(rawDir)
    /\ lastStatus' = "running"
    /\ UNCHANGED <<rawDir, indexFile, snapshotDir, reportDir, latestFile,
                   latestReportFile, exitCode, csvFiles, cursor, records, reports,
                   universe, edits, probeVars>>

\* main: clearDerivedDirectories(); listCsvFiles()
ClearDerived ==
    /\ pc = "loaded"
    /\ pc' = "listed"
    /\ snapshotDir' = EmptyDir
    /\ reportDir' = EmptyDir
    /\ csvFiles' = listCsvFiles(rawDir)
    /\ cursor' = 1
    /\ UNCHANGED <<rawDir, indexFile, latestFile, latestReportFile, exitCode,
                   existingSnapshots, records, reports, universe, edits, runRaw,
                   lastStatus, before, probeVars>>

\* main: csvFiles.length === 0: writeIndex([]); clearLatestOutputs(); return
WriteEmpty ==
    /\ pc = "listed"
    /\ csvFiles = <<>>
    /\ indexFile' = <<SortedIndex(<<>>)>>
    /\ latestFile' = <<JsonNull>>
    /\ latestReportFile' = <<JsonNull>>
    /\ Exit(0)
    /\ UNCHANGED <<rawDir, snapshotDir, reportDir, universe, edits, runRaw, before,
                   probeVars>>

\* main: one turn of the for loop: processCsv, records.push, writeSnapshot
ProcessCsv ==
    /\ pc = "listed"
    /\ cursor <= Len(csvFiles)
    /\ MatchesPattern(csvFiles[cursor])
    /\ LET done == processCsv(csvFiles[cursor], existingSnapshots, rawDir)
       IN /\ existingSnapshots' = done.map
          /\ records' = Append(records, done.record)
          /\ snapshotDir' = Put(snapshotDir, done.record.jsonFileName,
                                done.record.payload)
    /\ cursor' = cursor + 1
    /\ UNCHANGED <<rawDir, indexFile, reportDir, latestFile, latestReportFile, pc,
                   exitCode, csvFiles, reports, universe, edits, runRaw, lastStatus,
                   before, probeVars>>

\* main: deriveSnapshotDate throws in processCsv; main().catch sets exitCode 1
ProcessCsvThrows ==
    /\ pc = "listed"
    /\ cursor <= Len(csvFiles)
    /\ ~MatchesPattern(csvFiles[cursor])
    /\ Exit(1)
    /\ UNCHANGED <<rawDir, indexFile, snapshotDir, reportDir, latestFile,
                   latestReportFile, universe, edits, runRaw, before, probeVars>>

\* main: computeReports(records); annotateLatest(records)
ComputeReports ==
    /\ pc = "listed"
    /\ csvFiles # <<>>
    /\ cursor > Len(csvFiles)
    /\ pc' = "computed"
    /\ reports' = computeReports(records)
    /\ records' = annotateLatest(records)
    /\ UNCHANGED <<rawDir, indexFile, snapshotDir, reportDir, latestFile,
                   latestReportFile, exitCode, existingSnapshots, csvFiles, cursor,
                   universe, edits, runRaw, lastStatus, before, probeVars>>

\* main: writeIndex(records.map((record) => record.indexEntry))
WriteIndex ==
    /\ pc = "computed"
    /\ pc' = "indexed"
    /\ indexFile' = <<SortedIndex([i \in 1..Len(records) |-> records[i].indexEntry])>>
    /\ UNCHANGED <<rawDir, snapshotDir, reportDir, latestFile, latestReportFile,
                   exitCode, existingSnapshots, csvFiles, cursor, records, reports,
                   universe, edits, runRaw, lastStatus, before, probeVars>>

\* main: writeReports(records, reports)
WriteReports ==
    /\ pc = "indexed"
    /\ pc' = "reported"
    /\ reportDir' = PutReports(records, 1, reports, reportDir)
    /\ UNCHANGED <<rawDir, indexFile, snapshotDir, latestFile, latestReportFile,
                   exitCode, existingSnapshots, csvFiles, cursor, records, reports,
                   universe, edits, runRaw, lastStatus, before, probeVars>>

\* main: findLatestRecord; writeLatest and writeLatestReport; main returns
WriteLatest ==
    /\ pc = "reported"
    /\ LET latestRecord == findLatestRecord(records)
       IN IF latestRecord = NoRecord
          THEN /\ latestFile' = <<JsonNull>>
               /\ latestReportFile' = <<JsonNull>>
          ELSE /\ latestFile' = <<latestRecord[1].payload>>
               /\ latestReportFile' =
                    IF latestRecord[1].jsonFileName \in DOMAIN reports
                    THEN <<reports[latestRecord[1].jsonFileName]>>
                    ELSE latestReportFile
    /\ Exit(0)
    /\ UNCHANGED <<rawDir, indexFile, snapshotDir, reportDir, universe, edits,
                   runRaw, before, probeVars>>

Next ==
    \/ \E f \in Files, c \in ContentIds, t \in Times : PutFile(f, c, t)
    \/ \E f \in Files : RemoveFile(f)
    \/ LoadExisting
    \/ ClearDerived
    \/ WriteEmpty
    \/ ProcessCsv
    \/ ProcessCsvThrows
    \/ ComputeReports
    \/ WriteIndex
    \/ WriteReports
    \/ WriteLatest

Spec == Init /\ [][Next]_vars

-----------------------------------------------------------------------------
(* The rebuild over two files of one date and every content *)

SameDateFiles == {FileOrder[1], FileOrder[2], BadFile}

AllFileStates == {<<[content |-> c, mtime |-> t]>> : c \in AllContentIds, t \in Times}

AllRawDirs ==
    {d \in [Files -> {NoFile} \cup AllFileStates] :
        \A f \in Files : d[f] # NoFile => (f \in SameDateFiles /\ MatchesPattern(f))}

InitContents ==
    /\ universe = SameDateFiles
    /\ rawDir \in AllRawDirs
    /\ indexFile = <<>>
    /\ snapshotDir = EmptyDir
    /\ reportDir = EmptyDir
    /\ latestFile = <<>>
    /\ latestReportFile = <<>>
    /\ pc = "idle"
    /\ exitCode = 0
    /\ existingSnapshots = EmptyDir
    /\ csvFiles = <<>>
    /\ cursor = 1
    /\ records = <<>>
    /\ reports = EmptyDir
    /\ edits = 0
    /\ runRaw = [f \in Files |-> 0]
    /\ lastStatus = "none"
    /\ before = NoHistory
    /\ probe = <<>>
    /\ probeOut = <<>>
    /\ NoUpload
    /\ NoApp
    /\ NoCache
    /\ NoDrops

NextContents ==
    \/ \E f \in Files, c \in AllContentIds, t \in Times : PutFile(f, c, t)
    \/ \E f \in Files : RemoveFile(f)
    \/ LoadExisting
    \/ ClearDerived
    \/ WriteEmpty
    \/ ProcessCsv
    \/ ProcessCsvThrows
    \/ ComputeReports
    \/ WriteIndex
    \/ WriteReports
    \/ WriteLatest

SpecContents == InitContents /\ [][NextContents]_vars

-----------------------------------------------------------------------------
(* The rebuild when prior artifacts go missing between runs *)

\* data/index.json is deleted, or made unreadable
DeleteIndex ==
    /\ pc = "idle"
    /\ indexFile # <<>>
    /\ indexFile' = <<>>
    /\ UNCHANGED <<rawDir, snapshotDir, reportDir, latestFile, latestReportFile,
                   pc, exitCode, existingSnapshots, csvFiles, cursor, records,
                   reports, universe, edits, runRaw, lastStatus, before, probeVars>>

\* a file of data/snapshots is deleted, or made unreadable
DeleteSnapshot(n) ==
    /\ pc = "idle"
    /\ n \in DOMAIN snapshotDir
    /\ snapshotDir' = [x \in (DOMAIN snapshotDir) \ {n} |-> snapshotDir[x]]
    /\ UNCHANGED <<rawDir, indexFile, reportDir, latestFile, latestReportFile,
                   pc, exitCode, existingSnapshots, csvFiles, cursor, records,
                   reports, universe, edits, runRaw, lastStatus, before, probeVars>>

\* two files of different dates, both from the same moment
InitMissing ==
    /\ Init
    /\ universe = {FileOrder[1], FileOrder[4], BadFile}
    /\ \A f \in Files : rawDir[f] # NoFile => rawDir[f][1].mtime = 0

NextMissing ==
    \/ Next
    \/ DeleteIndex
    \/ \E n \in DOMAIN snapshotDir : DeleteSnapshot(n)

SpecMissing == InitMissing /\ [][NextMissing]_vars

-----------------------------------------------------------------------------
(* The diff engine on its own: buildReport applied to drawn item lists *)

ProbeQuantities == {0, 4, 16, 30}

ProbeNames == <<"A", "B", "C">>

\* the name-sorted, duplicate-free item lists over ProbeNames and
\* ProbeQuantities
ProbeItemLists ==
    {SelectSeq([i \in 1..Len(ProbeNames) |->
                    [name |-> ProbeNames[i], unit |-> "kg", quantity |-> pick[i]]],
               LAMBDA it : it.quantity # -1) :
        pick \in [1..Len(ProbeNames) -> ProbeQuantities \cup {-1}]}

ProbeMeta == [snapshotDate |-> 20240102, uploadedAt |-> 1,
              sourceFile |-> "c-stock-items_01_02_2024.csv"]

PreviousMeta == [snapshotDate |-> 20240101, uploadedAt |-> 0,
                 sourceFile |-> "a-stock-items_01_01_2024.csv"]

\* the SnapshotRecord processCsv builds for a meta and an item list
RecordOf(meta, items) ==
    [payload |-> [meta |-> meta, items |-> items],
     jsonFileName |-> generateSnapshotFileName(meta.snapshotDate, meta.uploadedAt),
     indexEntry |-> [snapshotDate |-> meta.snapshotDate,
                     uploadedAt |-> meta.uploadedAt,
                     sourceFile |-> meta.sourceFile,
                     path |-> SnapshotPath(generateSnapshotFileName(
                                  meta.snapshotDate, meta.uploadedAt)),
                     latestForDate |-> FALSE,
                     totalItems |-> calculateTotals(items).count,
                     totalQuantity |-> calculateTotals(items).totalQuantity]]

\* previous is <<>> for the first snapshot of a chain, else <<items>>
ProbeInputs ==
    {[current |-> cur, previous |-> prev] :
        cur \in ProbeItemLists,
        prev \in {<<>>} \cup {<<p>> : p \in ProbeItemLists}}

OrderingQuantities == {10, 20, 50}

\* four items that all stay: each one rises from 0 or falls from 100
OrderingInputs ==
    {[current |-> [i \in 1..Len(NameOrder) |->
                      [name |-> NameOrder[i], unit |-> "kg", quantity |-> cur[i]]],
      previous |-> <<[i \in 1..Len(NameOrder) |->
                      [name |-> NameOrder[i], unit |-> "kg", quantity |-> prev[i]]]>>] :
        cur \in [1..Len(NameOrder) -> OrderingQuantities],
        prev \in [1..Len(NameOrder) -> {0, 100}]}

InitReport ==
    /\ universe = Files
    /\ rawDir = [f \in Files |-> NoFile]
    /\ indexFile = <<>>
    /\ snapshotDir = EmptyDir
    /\ reportDir = EmptyDir
    /\ latestFile = <<>>
    /\ latestReportFile = <<>>
    /\ pc = "idle"
    /\ exitCode = 0
    /\ existingSnapshots = EmptyDir
    /\ csvFiles = <<>>
    /\ cursor = 1
    /\ records = <<>>
    /\ reports = EmptyDir
    /\ edits = 0
    /\ runRaw = [f \in Files |-> 0]
    /\ lastStatus = "none"
    /\ before = NoHistory
    /\ probe \in {<<in>> : in \in ProbeInputs \cup OrderingInputs}
    /\ probeOut = <<>>
    /\ NoUpload
    /\ NoApp
    /\ NoCache
    /\ NoDrops

\* the batch diff and the interactive diff on the same inputs
BuildReportProbe ==
    /\ probe # <<>>
    /\ probeOut = <<>>
    /\ probeOut' =
        <<[script |-> buildReport(
                RecordOf(ProbeMeta, probe[1].current),
                IF probe[1].previous = <<>> THEN NoRecord
                ELSE <<RecordOf(PreviousMeta, probe[1].previous[1])>>),
           lib |-> libBuildReport(ProbeMeta, probe[1].current,
                                  probe[1].previous, <<>>)]>>
    /\ UNCHANGED <<pipelineVars, probe, ingestVars, appVars, cacheVars, dropVars>>

NextReport == BuildReportProbe

SpecReport == InitReport /\ [][NextReport]_vars

-----------------------------------------------------------------------------
(* The two ingestors on drawn rows: processCsv of the batch rebuild and     *)
(* processFile of the upload panel                                         *)

MaxRows == 3           \* rows of a drawn file

IngestNames == {"", "A", "B"}

IngestQuantities == {Num(10), Num(25), [kind |-> "text", val |-> 0]}

IngestRows ==
    {[Name |-> n, Unit |-> "kg", Quantity |-> q] : n \in IngestNames, q \in IngestQuantities}

RowLists == UNION {[1..n -> IngestRows] : n \in 0..MaxRows}

\* baselineItems of the panel: the default, or the items of a latest snapshot
Baselines == {<<>>, <<[name |-> "A", unit |-> "kg", quantity |-> 10],
                      [name |-> "C", unit |-> "kg", quantity |-> 40]>>}

\* baselineReport of the panel: null by default, or the report App passes with
\* the items of the latest snapshot
BaselineReports(items) ==
    IF items = <<>> THEN {<<>>}
    ELSE {<<>>, <<libBuildReport(PreviousMeta, items, <<>>, <<>>)>>}

\* the props App can pass to the panel
PanelProps ==
    UNION {{[baselineItems |-> b, baselineReport |-> br] : br \in BaselineReports(b)} :
           b \in Baselines}

Uploads ==
    {[name |-> f, rows |-> r, baselineItems |-> props.baselineItems,
      baselineReport |-> props.baselineReport] :
        f \in {FileOrder[1], BadFile}, r \in RowLists, props \in PanelProps}

\* what the row loop reports: console.warn in processCsv (which passes over a
\* row without a name in silence), issues.push in buildSnapshotFromRows
RECURSIVE RowIssues(_, _, _)
RowIssues(rows, items, reportsNoName) ==
    IF rows = <<>> THEN <<>>
    ELSE LET row == Head(rows)
             quantity == parseQuantity(row.Quantity)
         IN IF row.Name = ""
            THEN (IF reportsNoName THEN <<[kind |-> "no name", name |-> ""]>> ELSE <<>>)
                     \o RowIssues(Tail(rows), items, reportsNoName)
            ELSE IF HasName(items, row.Name)
            THEN <<[kind |-> "duplicate", name |-> row.Name]>>
                     \o RowIssues(Tail(rows), items, reportsNoName)
            ELSE IF quantity.nan
            THEN <<[kind |-> "invalid quantity", name |-> row.Name]>>
                     \o RowIssues(Tail(rows), items, reportsNoName)
            ELSE RowIssues(Tail(rows),
                           Append(items, [name |-> row.Name, unit |-> row.Unit,
                                          quantity |-> quantity.value]),
                           reportsNoName)

NoValidRows == "No valid inventory rows were found in the uploaded file."

BadFileName == "File name must follow the pattern stock-items_MM_DD_YYYY.csv"

\* [error |-> "" or the message thrown, payload, issues]
buildSnapshotFromRows(sourceFile, rows, now) ==
    LET items == AcceptRows(rows, <<>>)
        failure == IF items = <<>> THEN NoValidRows
                   ELSE IF ~MatchesPattern(sourceFile) THEN BadFileName
                   ELSE ""
    IN [error |-> failure,
        payload |-> IF failure # "" THEN <<>>
                    ELSE <<[meta |-> [snapshotDate |-> deriveSnapshotDate(sourceFile),
                                      uploadedAt |-> now,
                                      sourceFile |-> sourceFile],
                            items |-> SortByName(items)]>>,
        issues |-> RowIssues(rows, <<>>, TRUE)]

\* the panel state processFile ends in
processFile(file, now) ==
    LET built == buildSnapshotFromRows(file.name, file.rows, now)
        totals == calculateTotals(file.baselineItems)
        previousTotals ==
            IF file.baselineReport # <<>> THEN file.baselineReport[1].totals
            ELSE [items |-> totals.count, quantity |-> totals.totalQuantity]
    IN IF built.error # ""
       THEN [errorMessage |-> built.error, warnings |-> <<>>, preview |-> <<>>]
       ELSE [errorMessage |-> "",
             warnings |-> built.issues,
             preview |-> <<[payload |-> built.payload[1],
                            report |-> libBuildReport(built.payload[1].meta,
                                                      built.payload[1].items,
                                                      <<file.baselineItems>>,
                                                      <<previousTotals>>)]>>]

\* data/raw is empty, nothing was ever built, main is not running
PipelineAtRest ==
    /\ universe = Files
    /\ rawDir = [f \in Files |-> NoFile]
    /\ indexFile = <<>>
    /\ snapshotDir = EmptyDir
    /\ reportDir = EmptyDir
    /\ latestFile = <<>>
    /\ latestReportFile = <<>>
    /\ pc = "idle"
    /\ exitCode = 0
    /\ existingSnapshots = EmptyDir
    /\ csvFiles = <<>>
    /\ cursor = 1
    /\ records = <<>>
    /\ reports = EmptyDir
    /\ edits = 0
    /\ runRaw = [f \in Files |-> 0]
    /\ lastStatus = "none"
    /\ before = NoHistory

InitIngest ==
    /\ PipelineAtRest
    /\ probe = <<>>
    /\ probeOut = <<>>
    /\ upload \in {<<u>> : u \in Uploads}
    /\ ingested = <<>>
    /\ panel = PanelInit
    /\ NoApp
    /\ NoCache
    /\ NoDrops

\* processCsv up to the hash, on the drawn file
IngestBatch ==
    /\ upload # <<>>
    /\ ingested = <<>>
    /\ ingested' =
         IF ~MatchesPattern(upload[1].name)
         THEN <<[threw |-> TRUE, items |-> <<>>, warnings |-> <<>>,
                 hash |-> hashItems(<<>>)]>>
         ELSE <<[threw |-> FALSE,
                 items |-> IngestItems(upload[1].rows),
                 warnings |-> RowIssues(upload[1].rows, <<>>, FALSE),
                 hash |-> hashItems(IngestItems(upload[1].rows))]>>
    /\ UNCHANGED <<pipelineVars, reportVars, upload, panel, appVars, cacheVars, dropVars>>

\* the user drops the file on the panel
ProcessFile(now) ==
    /\ upload # <<>>
    /\ panel = PanelInit
    /\ panel' = processFile(upload[1], now)
    /\ UNCHANGED <<pipelineVars, reportVars, upload, ingested, appVars, cacheVars, dropVars>>

NextIngest ==
    \/ IngestBatch
    \/ \E now \in Times : ProcessFile(now)

SpecIngest == InitIngest /\ [][NextIngest]_vars

-----------------------------------------------------------------------------
(* App.svelte: what onMount makes of the published artifacts *)

\* uploadedAt is the time the component script ran
demoMeta(now) ==
    [snapshotDate |-> 20250930, uploadedAt |-> now,
     sourceFile |-> "stock-items_09_30_2025.csv"]

demoItems ==
    <<[name |-> "1.5\" Northern River Rock", unit |-> "TON", quantity |-> 139200],
      [name |-> "Fabric Pins (50ct)", unit |-> "EACH", quantity |-> 2910000],
      [name |-> "Class 1 Compost", unit |-> "YARD", quantity |-> 1001900]>>

\* descending by snapshotDate, then by uploadedAt
sortTimeline(entries) ==
    Values(StableSort([i \in 1..Len(entries) |-> <<-OrderKey(entries[i]), entries[i]>>]))

\* reduce without an initial value: the first entry of the greatest uploadedAt
findLatest(entries) ==
    entries[CHOOSE i \in 1..Len(entries) :
                /\ \A j \in 1..Len(entries) : entries[j].uploadedAt <= entries[i].uploadedAt
                /\ \A j \in 1..(i - 1) : entries[j].uploadedAt < entries[i].uploadedAt]

buildFallbackReport(payload) ==
    LET items == payload.items
        totalQuantity == SumSeq([i \in 1..Len(items) |-> items[i].quantity])
    IN [meta |-> payload.meta,
        totals |-> [items |-> Len(items),
                    quantity |-> roundQuantity(totalQuantity),
                    deltaItems |-> Len(items),
                    deltaQuantity |-> roundQuantity(totalQuantity)],
        counts |-> [new |-> Len(items), removed |-> 0, increased |-> 0,
                    decreased |-> 0, unchanged |-> 0],
        newItems |-> [i \in 1..Len(items) |->
                        [name |-> items[i].name,
                         unit |-> items[i].unit,
                         previousQuantity |-> 0,
                         quantity |-> roundQuantity(items[i].quantity),
                         delta |-> roundQuantity(items[i].quantity)]],
        removedItems |-> <<>>,
        increases |-> <<>>,
        decreases |-> <<>>]

\* the App state after applyDemoData(message) and the finally block
applyDemoData(message, now) ==
    LET report == buildFallbackReport([meta |-> demoMeta(now), items |-> demoItems])
    IN [loading |-> FALSE,
        errorMessage |-> message,
        latestMeta |-> <<demoMeta(now)>>,
        latestItems |-> demoItems,
        timeline |-> <<[snapshotDate |-> demoMeta(now).snapshotDate,
                        uploadedAt |-> demoMeta(now).uploadedAt,
                        sourceFile |-> demoMeta(now).sourceFile,
                        path |-> SnapshotPath("demo.json"),
                        latestForDate |-> TRUE,
                        totalItems |-> Len(demoItems),
                        totalQuantity |-> report.totals.quantity]>>,
        report |-> <<report>>,
        hasBaseline |-> FALSE]

\* a response that is not ok is <<>>; index and latestReport are else <<body>>,
\* snapshots maps the paths that are served to their bodies
onMount(web) ==
    IF web.index = <<>> THEN applyDemoData("Failed to fetch index.json", web.now)
    ELSE IF web.index[1] = <<>>
    THEN applyDemoData("No processed snapshots found.", web.now)
    ELSE LET latestEntry == findLatest(web.index[1])
         IN IF latestEntry.path \notin DOMAIN web.snapshots
            THEN applyDemoData("Failed to fetch the snapshot", web.now)
            ELSE IF web.latestReport = <<>>
            THEN applyDemoData("Failed to fetch latest-report.json", web.now)
            ELSE LET payload == web.snapshots[latestEntry.path]
                 IN [loading |-> FALSE,
                     errorMessage |-> "",
                     latestMeta |-> <<payload.meta>>,
                     latestItems |-> payload.items,
                     timeline |-> sortTimeline(web.index[1]),
                     report |-> IF "null" \in DOMAIN web.latestReport[1]
                                THEN <<buildFallbackReport(payload)>>
                                ELSE web.latestReport,
                     hasBaseline |-> Len(web.index[1]) > 1]

\* what a rebuild of one or two raw files publishes, whole or in part
Published(items) ==
    LET first == RecordOf(PreviousMeta, <<[name |-> "A", unit |-> "kg", quantity |-> 30]>>)
        second == RecordOf(ProbeMeta, items)
    IN {[index |-> index, snapshots |-> snapshots, latestReport |-> report, now |-> now] :
          index \in {<<>>, <<<<>>>>, <<<<second.indexEntry>>>>,
                     <<<<first.indexEntry, second.indexEntry>>>>},
          snapshots \in {EmptyDir,
                         Put(Put(EmptyDir, first.indexEntry.path, first.payload),
                             second.indexEntry.path, second.payload)},
          report \in {<<>>, <<JsonNull>>, <<buildReport(second, <<first>>)>>},
          now \in Times}

InitApp ==
    /\ PipelineAtRest
    /\ probe = <<>>
    /\ probeOut = <<>>
    /\ NoUpload
    /\ served \in {<<web>> : web \in UNION {Published(items) : items \in ProbeItemLists}}
    /\ app = AppInit
    /\ NoCache
    /\ NoDrops

\* the browser opens the page
OnMount ==
    /\ served # <<>>
    /\ app.loading
    /\ app' = onMount(served[1])
    /\ UNCHANGED <<pipelineVars, reportVars, ingestVars, served, cacheVars, dropVars>>

NextApp == OnMount

SpecApp == InitApp /\ [][NextApp]_vars

-----------------------------------------------------------------------------
(* takeExistingSnapshot on drawn Maps of prior snapshots *)

MaxBucket == 2         \* prior entries under one key
MaxTakes == 3          \* calls of takeExistingSnapshot in one run

TakeFiles == {FileOrder[1], FileOrder[2]}

TakeKeys == {makeExistingKey(f, deriveSnapshotDate(f)) : f \in TakeFiles}

TakeHashes == {hashItems(IngestItems(Contents[c])) : c \in ContentIds}

\* the records loadExistingSnapshots makes of the index entries of one file:
\* the entry at position i was uploaded at tick i
BucketOf(f, hashes) ==
    [i \in 1..Len(hashes) |->
        [key |-> makeExistingKey(f, deriveSnapshotDate(f)),
         hash |-> hashes[i],
         meta |-> [snapshotDate |-> deriveSnapshotDate(f), uploadedAt |-> i,
                   sourceFile |-> f],
         fileName |-> generateSnapshotFileName(deriveSnapshotDate(f), i)]]

\* a key is in the Map when it has an entry
Caches ==
    {[k \in {makeExistingKey(f, deriveSnapshotDate(f)) :
                f \in {g \in TakeFiles : pick[g] # <<>>}} |->
        BucketOf(k[2], pick[k[2]])] :
      pick \in [TakeFiles -> UNION {[1..n -> TakeHashes] : n \in 0..MaxBucket}]}

InitTake ==
    /\ PipelineAtRest
    /\ probe = <<>>
    /\ probeOut = <<>>
    /\ NoUpload
    /\ NoApp
    /\ cache \in Caches
    /\ takes = <<>>
    /\ NoDrops

\* processCsv asks for the prior snapshot of a key with a hash
TakeExisting(key, hash) ==
    /\ Len(takes) < MaxTakes
    /\ LET result == takeExistingSnapshot(cache, key, hash)
       IN /\ cache' = result.map
          /\ takes' = Append(takes, [key |-> key, hash |-> hash,
                                     record |-> result.record,
                                     from |-> cache, to |-> result.map])
    /\ UNCHANGED <<pipelineVars, reportVars, ingestVars, appVars, dropVars>>

NextTake == \E key \in TakeKeys, hash \in TakeHashes : TakeExisting(key, hash)

SpecTake == InitTake /\ [][NextTake]_vars

-----------------------------------------------------------------------------
(* The App on the artifacts the rebuild published *)

\* what the server answers from the public directory after a rebuild
Site(now) ==
    [index |-> indexFile,
     snapshots |-> [path \in {SnapshotPath(n) : n \in DOMAIN snapshotDir} |->
                       snapshotDir[Basename(path)]],
     latestReport |-> latestReportFile,
     now |-> now]

\* the browser opens the page between two rebuilds
MountSite(now) ==
    /\ pc = "idle"
    /\ lastStatus # "none"
    /\ app.loading
    /\ served' = <<Site(now)>>
    /\ app' = onMount(Site(now))
    /\ UNCHANGED <<pipelineVars, reportVars, ingestVars, cacheVars, dropVars>>

NextSite ==
    \/ Next
    \/ \E now \in Times : MountSite(now)

SpecSite == Init /\ [][NextSite]_vars

-----------------------------------------------------------------------------
(* Rebuilds around a badly named file that comes and goes *)

\* a badly named file is dropped into data/raw
AddBadFile ==
    /\ pc = "idle"
    /\ rawDir[BadFile] = NoFile
    /\ rawDir' = [rawDir EXCEPT ![BadFile] = <<[content |-> 1, mtime |-> 0]>>]
    /\ UNCHANGED <<indexFile, snapshotDir, reportDir, latestFile, latestReportFile,
                   pc, exitCode, existingSnapshots, csvFiles, cursor, records,
                   reports, universe, edits, runRaw, lastStatus, before, probeVars>>

\* the badly named file is taken out again
RemoveBadFile ==
    /\ pc = "idle"
    /\ rawDir[BadFile] # NoFile
    /\ rawDir' = [rawDir EXCEPT ![BadFile] = NoFile]
    /\ UNCHANGED <<indexFile, snapshotDir, reportDir, latestFile, latestReportFile,
                   pc, exitCode, existingSnapshots, csvFiles, cursor, records,
                   reports, universe, edits, runRaw, lastStatus, before, probeVars>>

\* a raw file gets a new modification time, its content stays
Touch(f, t) ==
    /\ pc = "idle"
    /\ f # BadFile
    /\ rawDir[f] # NoFile
    /\ rawDir[f][1].mtime # t
    /\ rawDir' = [rawDir EXCEPT ![f] = <<[content |-> rawDir[f][1].content,
                                          mtime |-> t]>>]
    /\ UNCHANGED <<indexFile, snapshotDir, reportDir, latestFile, latestReportFile,
                   pc, exitCode, existingSnapshots, csvFiles, cursor, records,
                   reports, universe, edits, runRaw, lastStatus, before, probeVars>>

\* two well-named files of different dates, the badly named one sorts between
InitRecovery ==
    /\ Init
    /\ universe = {FileOrder[1], FileOrder[4], BadFile}
    /\ rawDir[FileOrder[1]] # NoFile
    /\ rawDir[FileOrder[4]] # NoFile
    /\ rawDir[BadFile] = NoFile

\* data/raw is never empty here, so main never takes its empty branch
NextRecovery ==
    \/ AddBadFile
    \/ RemoveBadFile
    \/ \E f \in Files, t \in Times : Touch(f, t)
    \/ LoadExisting
    \/ ClearDerived
    \/ ProcessCsv
    \/ ProcessCsvThrows
    \/ ComputeReports
    \/ WriteIndex
    \/ WriteReports
    \/ WriteLatest

SpecRecovery == InitRecovery /\ [][NextRecovery]_vars

-----------------------------------------------------------------------------
(* The upload panel when files are dropped in quick succession *)

\* one accepted row; an accepted row and a duplicate of it; no accepted row
PanelRowLists ==
    {<<[Name |-> "A", Unit |-> "kg", Quantity |-> Num(10)]>>,
     <<[Name |-> "B", Unit |-> "kg", Quantity |-> Num(25)],
       [Name |-> "B", Unit |-> "kg", Quantity |-> Num(10)]>>,
     <<[Name |-> "", Unit |-> "kg", Quantity |-> Num(10)]>>}

\* a dropped file, with the props of the panel it is dropped on
PanelFiles ==
    {[name |-> f, rows |-> r, baselineItems |-> props.baselineItems,
      baselineReport |-> props.baselineReport] :
        f \in {FileOrder[1], BadFile}, r \in PanelRowLists, props \in PanelProps}

InitPanel ==
    /\ PipelineAtRest
    /\ probe = <<>>
    /\ probeOut = <<>>
    /\ NoUpload
    /\ NoApp
    /\ NoCache
    /\ NoDrops

\* handleFiles, processFile up to the await: the three fields are reset and
\* file.text() is under way
StartProcessFile(file) ==
    /\ Len(dropped) < MaxDrops
    /\ dropped # <<>> =>
          /\ file.baselineItems = dropped[1].baselineItems
          /\ file.baselineReport = dropped[1].baselineReport
    /\ dropped' = Append(dropped, file)
    /\ pending' = pending \cup {Len(dropped) + 1}
    /\ panel' = [errorMessage |-> "", warnings |-> <<>>, preview |-> <<>>]
    /\ UNCHANGED <<pipelineVars, reportVars, upload, ingested, appVars, cacheVars>>

\* processFile after the await: the try block assigns warnings and preview,
\* the catch block assigns errorMessage
FinishProcessFile(i, now) ==
    /\ i \in pending
    /\ pending' = pending \ {i}
    /\ LET built == buildSnapshotFromRows(dropped[i].name, dropped[i].rows, now)
       IN panel' = IF built.error # ""
                   THEN [panel EXCEPT !.errorMessage = built.error]
                   ELSE [panel EXCEPT !.warnings = built.issues,
                                      !.preview = processFile(dropped[i], now).preview]
    /\ UNCHANGED <<pipelineVars, reportVars, upload, ingested, appVars, cacheVars,
                   dropped>>

NextPanel ==
    \/ \E file \in PanelFiles : StartProcessFile(file)
    \/ \E i \in 1..MaxDrops, now \in Times : FinishProcessFile(i, now)

SpecPanel == InitPanel /\ [][NextPanel]_vars

-----------------------------------------------------------------------------
(* Properties *)

Finished == pc = "idle" /\ lastStatus = "ok"

TwoRuns == Finished /\ before.status = "ok"

IndexEntries(file) == IF file = <<>> THEN <<>> ELSE file[1]

EntriesOf(file, sourceFile) ==
    SelectSeq(IndexEntries(file), LAMBDA e : e.sourceFile = sourceFile)

Thousandth(q) == q % 10 = 0

ReportQuantitiesRounded(report) ==
    /\ Thousandth(report.totals.quantity)
    /\ Thousandth(report.totals.deltaQuantity)
    /\ \A list \in {report.newItems, report.removedItems, report.increases,
                    report.decreases} :
           \A i \in 1..Len(list) :
               /\ Thousandth(list[i].quantity)
               /\ Thousandth(list[i].previousQuantity)
               /\ Thousandth(list[i].delta)

\* C1: a second rebuild of a raw directory whose bytes did not change leaves
\* index.json, the snapshot files, the report files and the latest files as
\* the first rebuild left them.
C1_RebuildIdempotent ==
    (TwoRuns /\ before.raw = runRaw) => Artifacts = before.arts

\* C2: a raw file whose accepted item list is the same in two successive
\* rebuilds keeps its uploadedAt and its storage filename, whatever happened
\* to its modification time and to the other raw files.
C2_IdentityReuse ==
    TwoRuns =>
        \A f \in Files :
            (/\ before.raw[f] # 0
             /\ runRaw[f] # 0
             /\ IngestItems(Contents[before.raw[f]]) = IngestItems(Contents[runRaw[f]]))
            => \A i \in 1..Len(EntriesOf(indexFile, f)) :
                 \A j \in 1..Len(EntriesOf(before.arts.index, f)) :
                    /\ EntriesOf(indexFile, f)[i].uploadedAt
                         = EntriesOf(before.arts.index, f)[j].uploadedAt
                    /\ EntriesOf(indexFile, f)[i].path
                         = EntriesOf(before.arts.index, f)[j].path

\* C3: a rebuild that stops at a badly named raw file exits non-zero and has
\* changed no persisted artifact.
C3_BadNameChangesNothing ==
    (pc = "idle" /\ lastStatus = "failed") =>
        (exitCode # 0 /\ Artifacts = before.arts)

PartitionHolds(report, current, previous) ==
    /\ report.counts.new + report.counts.increased + report.counts.decreased
         + report.counts.unchanged = Len(current)
    /\ report.counts.removed =
         Cardinality({i \in 1..Len(previous) :
                        \A j \in 1..Len(current) : current[j].name # previous[i].name})

ProbePrevious == IF probe[1].previous = <<>> THEN <<>> ELSE probe[1].previous[1]

\* C4: in every report the new, increased, decreased and unchanged counts
\* add up to the number of current items, and the removed count is the number
\* of previous items whose name is absent from current.
C4_CountsPartition ==
    probeOut # <<>> =>
        /\ PartitionHolds(probeOut[1].script, probe[1].current, ProbePrevious)
        /\ PartitionHolds(probeOut[1].lib, probe[1].current, ProbePrevious)

C4_Witness ==
    /\ probeOut # <<>>
    /\ probeOut[1].script.counts.new = 1
    /\ probeOut[1].script.counts.removed = 1
    /\ probeOut[1].script.counts.decreased = 1
    /\ probeOut[1].lib.counts.removed = 1

\* C5: every quantity a rebuild persists is a multiple of 0.001: the item
\* quantities of the snapshot files, totalQuantity of the index entries and
\* the quantities, deltas and totals of the reports.
C5_PersistedQuantitiesRounded ==
    /\ \A n \in DOMAIN snapshotDir :
          \A i \in 1..Len(snapshotDir[n].items) :
              Thousandth(snapshotDir[n].items[i].quantity)
    /\ \A i \in 1..Len(IndexEntries(indexFile)) :
          Thousandth(IndexEntries(indexFile)[i].totalQuantity)
    /\ \A n \in DOMAIN reportDir : ReportQuantitiesRounded(reportDir[n])

\* C6: in every index written, each snapshotDate has exactly one entry with
\* latestForDate = true, and that entry has the maximum uploadedAt of the
\* entries of its date.
C6_OneLatestPerDate ==
    LET entries == IndexEntries(indexFile)
    IN \A i \in 1..Len(entries) :
          /\ Cardinality({j \in 1..Len(entries) :
                            /\ entries[j].snapshotDate = entries[i].snapshotDate
                            /\ entries[j].latestForDate}) = 1
          /\ entries[i].latestForDate =>
                \A j \in 1..Len(entries) :
                    entries[j].snapshotDate = entries[i].snapshotDate
                        => entries[j].uploadedAt <= entries[i].uploadedAt

\* two files of one date, the first in file order uploaded last
C6_Witness ==
    /\ Finished
    /\ \E i, j \in 1..Len(IndexEntries(indexFile)) :
          /\ IndexEntries(indexFile)[i].snapshotDate
                = IndexEntries(indexFile)[j].snapshotDate
          /\ IndexEntries(indexFile)[i].uploadedAt
                < IndexEntries(indexFile)[j].uploadedAt
          /\ IndexEntries(indexFile)[j].sourceFile = FileOrder[1]
          /\ IndexEntries(indexFile)[j].latestForDate
          /\ ~IndexEntries(indexFile)[i].latestForDate

\* C7: no two entries of a written index have the same (snapshotDate,
\* uploadedAt) pair.
C7_OrderIsTotal ==
    LET entries == IndexEntries(indexFile)
    IN \A i, j \in 1..Len(entries) :
          i # j => OrderKey(entries[i]) # OrderKey(entries[j])

\* C8: within one rebuild two distinct raw files never get the same storage
\* filename.
C8_DistinctStorageNames ==
    \A i, j \in 1..Len(records) :
        i # j => records[i].jsonFileName # records[j].jsonFileName

\* C9: the report of each snapshot of a rebuild is the diff of its items
\* against the snapshot just before it in the (snapshotDate, uploadedAt)
\* order, and the report of the first is the diff against the empty list.
C9_ReportAgainstPredecessor ==
    pc = "computed" =>
        LET sorted == SortRecords(records)
        IN \A i \in 1..Len(sorted) :
              LET report == reports[sorted[i].jsonFileName]
                  previous == IF i = 1 THEN <<>> ELSE sorted[i - 1].payload.items
              IN /\ report.meta = sorted[i].payload.meta
                 /\ report.counts.new =
                      Cardinality({k \in 1..Len(sorted[i].payload.items) :
                          ~HasName(previous, sorted[i].payload.items[k].name)})
                 /\ report.counts.removed =
                      Cardinality({k \in 1..Len(previous) :
                          ~HasName(sorted[i].payload.items, previous[k].name)})

\* C10: after a successful rebuild of a non-empty raw directory latest.json
\* holds the snapshot with the maximum uploadedAt of the index, and
\* latest-report.json the report of that snapshot.
C10_LatestIsMaxUploadedAt ==
    (Finished /\ IndexEntries(indexFile) # <<>>) =>
        /\ \A i \in 1..Len(IndexEntries(indexFile)) :
              IndexEntries(indexFile)[i].uploadedAt <= latestFile[1].meta.uploadedAt
        /\ latestReportFile[1].meta = latestFile[1].meta

\* the panel has processed the drawn file
Processed == upload # <<>> /\ panel # PanelInit

\* C11: a file from which no row is accepted makes ingestion fail: no
\* snapshot file and no index entry has an empty item list, a rebuild that
\* read such a file did not succeed, and the upload panel ends with an error
\* message and no preview.
C11_EmptyIngestFails ==
    /\ \A n \in DOMAIN snapshotDir : snapshotDir[n].items # <<>>
    /\ \A i \in 1..Len(IndexEntries(indexFile)) :
          IndexEntries(indexFile)[i].totalItems > 0
    /\ Finished =>
          \A f \in Files : runRaw[f] # 0 => IngestItems(Contents[runRaw[f]]) # <<>>
    /\ (Processed /\ AcceptRows(upload[1].rows, <<>>) = <<>>) =>
          (panel.errorMessage # "" /\ panel.preview = <<>>)

AcceptableRow(row) == row.Name # "" /\ ~parseQuantity(row.Quantity).nan

\* the first row of a name that the row loop can accept
FirstAccepted(rows, name) ==
    CHOOSE k \in 1..Len(rows) :
        /\ rows[k].Name = name
        /\ AcceptableRow(rows[k])
        /\ \A j \in 1..(k - 1) : ~(rows[j].Name = name /\ AcceptableRow(rows[j]))

IngestedWell(rows, items, issues) ==
    /\ \A i, j \in 1..Len(items) :
          i < j => NameRank(items[i].name) < NameRank(items[j].name)
    /\ {items[i].name : i \in 1..Len(items)}
          = {rows[k].Name : k \in {j \in 1..Len(rows) : AcceptableRow(rows[j])}}
    /\ \A i \in 1..Len(items) :
          LET k == FirstAccepted(rows, items[i].name)
          IN /\ items[i].quantity = parseQuantity(rows[k].Quantity).value
             /\ items[i].unit = rows[k].Unit
             /\ Cardinality({j \in (k + 1)..Len(rows) : rows[j].Name = items[i].name})
                  = Cardinality({m \in 1..Len(issues) :
                        issues[m] = [kind |-> "duplicate", name |-> items[i].name]})

\* C12: the items of an ingested snapshot have distinct names in ascending
\* order; of the rows of one name the first accepted one is kept as it is,
\* and every later row of that name is skipped with a recorded issue.
C12_FirstRowWins ==
    /\ (ingested # <<>> /\ ~ingested[1].threw) =>
          IngestedWell(upload[1].rows, ingested[1].items, ingested[1].warnings)
    /\ (Processed /\ panel.preview # <<>>) =>
          IngestedWell(upload[1].rows, panel.preview[1].payload.items, panel.warnings)

\* rows B, A, A: both ingestors keep A with the first quantity, before B
C12_Witness ==
    /\ ingested # <<>>
    /\ Processed
    /\ upload[1].rows = <<[Name |-> "B", Unit |-> "kg", Quantity |-> Num(10)],
                           [Name |-> "A", Unit |-> "kg", Quantity |-> Num(10)],
                           [Name |-> "A", Unit |-> "kg", Quantity |-> Num(25)]>>
    /\ ingested[1].items = <<[name |-> "A", unit |-> "kg", quantity |-> 10],
                             [name |-> "B", unit |-> "kg", quantity |-> 10]>>
    /\ panel.preview # <<>>
    /\ panel.preview[1].payload.items = ingested[1].items
    /\ panel.warnings = <<[kind |-> "duplicate", name |-> "A"]>>

Quantities(items) == [i \in 1..Len(items) |-> items[i].quantity]

TotalsHold(report, current, previous) ==
    /\ report.totals.items = Len(current)
    /\ report.totals.quantity = roundQuantity(SumSeq(Quantities(current)))
    /\ report.totals.deltaItems = Len(current) - Len(previous)
    /\ report.totals.deltaQuantity =
          roundQuantity(SumSeq(Quantities(current)) - SumSeq(Quantities(previous)))

\* C13: the totals of a report are the number of current items, the rounded
\* sum of their quantities, the difference of the item counts, and the
\* difference of the exact sums of current and previous rounded once.
C13_TotalsRoundedOnce ==
    probeOut # <<>> =>
        /\ TotalsHold(probeOut[1].script, probe[1].current, ProbePrevious)
        /\ TotalsHold(probeOut[1].lib, probe[1].current, ProbePrevious)

EntrySet(list) == {list[i] : i \in 1..Len(list)}

NewAndRemovedHold(report, current, previous) ==
    /\ EntrySet(report.newItems) =
          {[name |-> current[i].name, unit |-> current[i].unit, previousQuantity |-> 0,
            quantity |-> roundQuantity(current[i].quantity),
            delta |-> roundQuantity(current[i].quantity)] :
              i \in {k \in 1..Len(current) : ~HasName(previous, current[k].name)}}
    /\ Len(report.newItems) = Cardinality(EntrySet(report.newItems))
    /\ EntrySet(report.removedItems) =
          {[name |-> previous[i].name, unit |-> previous[i].unit,
            previousQuantity |-> roundQuantity(previous[i].quantity),
            quantity |-> 0,
            delta |-> roundQuantity(-roundQuantity(previous[i].quantity))] :
              i \in {k \in 1..Len(previous) : ~HasName(current, previous[k].name)}}
    /\ Len(report.removedItems) = Cardinality(EntrySet(report.removedItems))

\* C14: newItems holds one entry per current item absent from previous, with
\* previousQuantity 0 and delta equal to the quantity; removedItems holds one
\* entry per previous item absent from current, with quantity 0, the rounded
\* previous quantity and its negation as delta; neither list holds more.
C14_NewAndRemovedEntries ==
    probeOut # <<>> =>
        /\ NewAndRemovedHold(probeOut[1].script, probe[1].current, ProbePrevious)
        /\ NewAndRemovedHold(probeOut[1].lib, probe[1].current, ProbePrevious)

\* previous [A 0.003, C 0.0016], current [A 0.003, B 0.0016]
C14_Witness ==
    /\ probeOut # <<>>
    /\ probe[1].current = <<[name |-> "A", unit |-> "kg", quantity |-> 30],
                            [name |-> "B", unit |-> "kg", quantity |-> 16]>>
    /\ probeOut[1].script.newItems =
          <<[name |-> "B", unit |-> "kg", previousQuantity |-> 0, quantity |-> 20,
             delta |-> 20]>>
    /\ probeOut[1].lib.removedItems =
          <<[name |-> "C", unit |-> "kg", previousQuantity |-> 20, quantity |-> 0,
             delta |-> -20]>>

NonIncreasing(keys) == \A i \in 1..(Len(keys) - 1) : keys[i] >= keys[i + 1]

ListsOrdered(report) ==
    /\ NonIncreasing([i \in 1..Len(report.newItems) |-> report.newItems[i].quantity])
    /\ NonIncreasing([i \in 1..Len(report.removedItems) |->
                         report.removedItems[i].previousQuantity])
    /\ NonIncreasing([i \in 1..Len(report.increases) |-> report.increases[i].delta])
    /\ NonIncreasing([i \in 1..Len(report.decreases) |->
                         Abs(report.decreases[i].delta)])

\* C15: in every report newItems is in non-increasing order of quantity,
\* removedItems of previousQuantity, increases of delta and decreases of the
\* absolute value of delta.
C15_ListsOrdered ==
    probeOut # <<>> => (ListsOrdered(probeOut[1].script) /\ ListsOrdered(probeOut[1].lib))

\* two increases and two decreases that had to be reordered: the items
\* arrive in ascending name order
C15_Witness ==
    /\ probeOut # <<>>
    /\ Len(probeOut[1].lib.increases) = 2
    /\ Len(probeOut[1].lib.decreases) = 2
    /\ probeOut[1].lib.increases[1].delta > probeOut[1].lib.increases[2].delta
    /\ NameRank(probeOut[1].lib.increases[1].name)
          > NameRank(probeOut[1].lib.increases[2].name)
    /\ probeOut[1].lib.decreases[1].delta < probeOut[1].lib.decreases[2].delta
    /\ NameRank(probeOut[1].lib.decreases[1].name)
          > NameRank(probeOut[1].lib.decreases[2].name)
    /\ probeOut[1].script.increases = probeOut[1].lib.increases
    /\ probeOut[1].script.decreases = probeOut[1].lib.decreases

TiesInNameOrder(list) ==
    \A i, j \in 1..Len(list) :
        (i < j /\ list[i].delta = list[j].delta)
            => NameRank(list[i].name) < NameRank(list[j].name)

\* C16: increases with equal deltas keep the order in which they were
\* classified, the ascending order of their names.
C16_IncreasesSortStable ==
    probeOut # <<>> =>
        /\ TiesInNameOrder(probeOut[1].script.increases)
        /\ TiesInNameOrder(probeOut[1].lib.increases)

\* increases classified with deltas 0.001, 0.005, 0.005, 0.002 come out as
\* 0.005 (B), 0.005 (C), 0.002 (D), 0.001 (A)
C16_Witness ==
    /\ probeOut # <<>>
    /\ probe[1] \in OrderingInputs
    /\ [i \in 1..Len(probe[1].current) |->
          probe[1].current[i].quantity - ProbePrevious[i].quantity] = <<10, 50, 50, 20>>
    /\ [i \in 1..Len(probeOut[1].script.increases) |->
          probeOut[1].script.increases[i].delta] = <<50, 50, 20, 10>>
    /\ [i \in 1..Len(probeOut[1].script.increases) |->
          probeOut[1].script.increases[i].name] = <<"B", "C", "D", "A">>
    /\ probeOut[1].lib.increases = probeOut[1].script.increases

DistinctRowNames(rows) ==
    \A i, j \in 1..Len(rows) : i # j => rows[i].Name # rows[j].Name

\* the same rows, none of them sharing a name, in another order
Reordered(rows, other) ==
    /\ rows # other
    /\ Len(rows) = Len(other)
    /\ DistinctRowNames(rows)
    /\ \E p \in Permutations(1..Len(rows)) : \A i \in 1..Len(rows) : other[i] = rows[p[i]]

\* C17: two versions of a raw file that hold the same rows, without duplicate
\* names, in different orders yield the same item list and the same content
\* hash, and a rebuild after such a reordering keeps the uploadedAt and the
\* storage filename of the file.
C17_RowOrderIrrelevant ==
    /\ \A c, d \in AllContentIds :
          Reordered(Contents[c], Contents[d]) =>
              /\ IngestItems(Contents[c]) = IngestItems(Contents[d])
              /\ hashItems(IngestItems(Contents[c])) = hashItems(IngestItems(Contents[d]))
    /\ TwoRuns =>
          \A f \in Files :
              (/\ before.raw[f] # 0
               /\ runRaw[f] # 0
               /\ Reordered(Contents[before.raw[f]], Contents[runRaw[f]]))
              => \A i \in 1..Len(EntriesOf(indexFile, f)) :
                   \A j \in 1..Len(EntriesOf(before.arts.index, f)) :
                      /\ EntriesOf(indexFile, f)[i].uploadedAt
                           = EntriesOf(before.arts.index, f)[j].uploadedAt
                      /\ EntriesOf(indexFile, f)[i].path
                           = EntriesOf(before.arts.index, f)[j].path

\* the file exists and holds JSON null
IsNull(file) == file # <<>> /\ "null" \in DOMAIN file[1]

\* the file exists and holds an object
IsObject(file) == file # <<>> /\ "null" \notin DOMAIN file[1]

LatestFilesAgree(index, raw, latest, latestReport) ==
    /\ IndexEntries(index) = <<>> <=> \A f \in Files : raw[f] = 0
    /\ IsNull(latest) <=> IndexEntries(index) = <<>>
    /\ IsNull(latestReport) <=> IndexEntries(index) = <<>>
    /\ IndexEntries(index) # <<>> =>
          /\ IsObject(latest)
          /\ IsObject(latestReport)
          /\ latestReport[1].meta = latest[1].meta

\* C18: after a successful rebuild latest.json and latest-report.json both
\* hold null exactly when the index is empty, which is when data/raw held no
\* file; otherwise both hold an object and the meta of the report is the meta
\* of the snapshot.
C18_LatestFilesAgree ==
    Finished => LatestFilesAgree(indexFile, runRaw, latestFile, latestReportFile)

\* a rebuild of one file, then a rebuild of the emptied directory
C18_Witness ==
    /\ TwoRuns
    /\ Len(IndexEntries(before.arts.index)) = 1
    /\ IsObject(before.arts.latest)
    /\ before.arts.latestReport[1].meta = before.arts.latest[1].meta
    /\ indexFile = <<<<>>>>
    /\ IsNull(latestFile)
    /\ IsNull(latestReportFile)

InOrder(e1, e2) ==
    \/ e1.snapshotDate < e2.snapshotDate
    \/ e1.snapshotDate = e2.snapshotDate /\ e1.uploadedAt <= e2.uploadedAt

\* C19: the index a successful rebuild writes holds one entry for each raw
\* file present at that run and no other entry, in ascending order of
\* (snapshotDate, uploadedAt).
C19_IndexMatchesRaw ==
    Finished =>
        LET entries == IndexEntries(indexFile)
        IN /\ indexFile # <<>>
           /\ Len(entries) = Cardinality({f \in Files : runRaw[f] # 0})
           /\ \A f \in Files : runRaw[f] # 0 => Len(EntriesOf(indexFile, f)) = 1
           /\ \A i, j \in 1..Len(entries) : i < j => InOrder(entries[i], entries[j])

\* the second rebuild of two files, one of them with new content, the first
\* file in name order being the later in the index
C19_Witness ==
    /\ TwoRuns
    /\ Len(IndexEntries(before.arts.index)) = 2
    /\ Len(IndexEntries(indexFile)) = 2
    /\ \E f \in Files :
          /\ before.raw[f] # 0
          /\ runRaw[f] # 0
          /\ IngestItems(Contents[before.raw[f]]) # IngestItems(Contents[runRaw[f]])
    /\ IndexEntries(indexFile)[2].sourceFile = FileOrder[1]
    /\ IndexEntries(indexFile)[1].uploadedAt < IndexEntries(indexFile)[2].uploadedAt

\* onMount has run
Mounted == served # <<>> /\ ~app.loading

\* the index and the snapshot its latest entry points to were served
SnapshotServed ==
    /\ served[1].index # <<>>
    /\ served[1].index[1] # <<>>
    /\ findLatest(served[1].index[1]).path \in DOMAIN served[1].snapshots

ReportAbsent == served[1].latestReport = <<>> \/ IsNull(served[1].latestReport)

ShowsSynthesized(payload, index) ==
    /\ app.errorMessage = ""
    /\ app.latestMeta = <<payload.meta>>
    /\ app.latestItems = payload.items
    /\ app.timeline = sortTimeline(index)
    /\ app.report # <<>>
    /\ app.report[1].meta = payload.meta
    /\ app.report[1].newItems =
          [i \in 1..Len(payload.items) |->
              [name |-> payload.items[i].name, unit |-> payload.items[i].unit,
               previousQuantity |-> 0,
               quantity |-> roundQuantity(payload.items[i].quantity),
               delta |-> roundQuantity(payload.items[i].quantity)]]
    /\ app.report[1].removedItems = <<>>
    /\ app.report[1].increases = <<>>
    /\ app.report[1].decreases = <<>>
    /\ app.report[1].counts =
          [new |-> Len(payload.items), removed |-> 0, increased |-> 0,
           decreased |-> 0, unchanged |-> 0]

\* C20: when the index is not empty and the current snapshot loads but
\* latest-report.json is missing or holds null, the App shows that snapshot
\* and the timeline of the index with a report made locally, in which every
\* item is a new item, and not the demo data.
C20_ReportSynthesized ==
    (Mounted /\ SnapshotServed /\ ReportAbsent) =>
        ShowsSynthesized(served[1].snapshots[findLatest(served[1].index[1]).path],
                         served[1].index[1])

Occurrences(list, name) == Cardinality({i \in 1..Len(list) : list[i].name = name})

\* the rounded difference of a current item and the previous item of its name
RoundedChange(item, previous) ==
    LET prior == CHOOSE k \in 1..Len(previous) : previous[k].name = item.name
    IN roundQuantity(item.quantity - previous[prior].quantity)

ClassifiedByDelta(report, current, previous) ==
    LET kept == {i \in 1..Len(current) : HasName(previous, current[i].name)}
    IN /\ \A i \in kept :
             LET delta == RoundedChange(current[i], previous)
                 name == current[i].name
             IN /\ Occurrences(report.increases, name) = IF delta > 0 THEN 1 ELSE 0
                /\ Occurrences(report.decreases, name) = IF delta < 0 THEN 1 ELSE 0
                /\ Occurrences(report.newItems, name) = 0
                /\ Occurrences(report.removedItems, name) = 0
       /\ report.counts.unchanged =
             Cardinality({i \in kept : RoundedChange(current[i], previous) = 0})

\* C21: a current item with a previous item of the same name is in increases
\* alone when its rounded difference is positive, in decreases alone when it
\* is negative, and in no list but counted as unchanged when it is 0, also
\* when the difference before rounding is not 0.
C21_ClassifiedByRoundedDelta ==
    probeOut # <<>> =>
        /\ ClassifiedByDelta(probeOut[1].script, probe[1].current, ProbePrevious)
        /\ ClassifiedByDelta(probeOut[1].lib, probe[1].current, ProbePrevious)

\* A rises by 0.0004 (unchanged), B by 0.0012 (an increase of 0.001), C falls
C21_Witness ==
    /\ probeOut # <<>>
    /\ probe[1].current = <<[name |-> "A", unit |-> "kg", quantity |-> 4],
                            [name |-> "B", unit |-> "kg", quantity |-> 16],
                            [name |-> "C", unit |-> "kg", quantity |-> 0]>>
    /\ ProbePrevious = <<[name |-> "A", unit |-> "kg", quantity |-> 0],
                         [name |-> "B", unit |-> "kg", quantity |-> 4],
                         [name |-> "C", unit |-> "kg", quantity |-> 30]>>
    /\ probeOut[1].script.counts.unchanged = 1
    /\ Len(probeOut[1].script.increases) = 1
    /\ probeOut[1].script.increases[1].delta = 10
    /\ Len(probeOut[1].lib.decreases) = 1
    /\ probeOut[1].lib.counts.unchanged = 1

Bucket(map, key) == IF key \in DOMAIN map THEN map[key] ELSE <<>>

Without(bucket, i) == SubSeq(bucket, 1, i - 1) \o SubSeq(bucket, i + 1, Len(bucket))

TookWell(call) ==
    LET bucket == Bucket(call.from, call.key)
        hits == {i \in 1..Len(bucket) : bucket[i].hash = call.hash}
    IN /\ \A k \in TakeKeys \ {call.key} : Bucket(call.to, k) = Bucket(call.from, k)
       /\ \A k \in DOMAIN call.to : call.to[k] # <<>>
       /\ hits = {} => (call.record = <<>> /\ call.to = call.from)
       /\ hits # {} =>
             /\ call.record # <<>>
             /\ \E i \in hits :
                   /\ call.record[1] = bucket[i]
                   /\ Bucket(call.to, call.key) = Without(bucket, i)

\* C22: a call of takeExistingSnapshot that finds an entry with the hash
\* removes that entry from the bucket of its key and changes nothing else, a
\* call that finds none changes nothing, and no prior entry is handed out by
\* two calls of one run.
C22_ConsumedAtMostOnce ==
    /\ \A k \in 1..Len(takes) : TookWell(takes[k])
    /\ \A i, j \in 1..Len(takes) :
          (i < j /\ takes[i].record # <<>>) => takes[i].record # takes[j].record

\* two entries with one hash under one key: two calls take one each, the
\* third finds the key gone
C22_Witness ==
    /\ Len(takes) = 3
    /\ takes[1].key = takes[2].key /\ takes[2].key = takes[3].key
    /\ takes[1].hash = takes[2].hash /\ takes[2].hash = takes[3].hash
    /\ Len(Bucket(takes[1].from, takes[1].key)) = 2
    /\ takes[1].record # <<>>
    /\ takes[2].record # <<>>
    /\ takes[1].record[1].meta.uploadedAt # takes[2].record[1].meta.uploadedAt
    /\ takes[3].record = <<>>
    /\ takes[3].key \notin DOMAIN cache

\* the entries of the prior index whose snapshot file could be read
ReadableEntries(arts) ==
    SelectSeq(IndexEntries(arts.index),
              LAMBDA e : Basename(e.path) \in DOMAIN arts.snapshots)

\* the record a readable prior entry is loaded as
LoadedAs(e, arts) ==
    [key |-> makeExistingKey(e.sourceFile, e.snapshotDate),
     hash |-> hashItems(SortByName(arts.snapshots[Basename(e.path)].items)),
     meta |-> [snapshotDate |-> e.snapshotDate, uploadedAt |-> e.uploadedAt,
               sourceFile |-> e.sourceFile],
     fileName |-> Basename(e.path)]

RECURSIVE CountRecords(_)
CountRecords(keys) ==
    IF keys = {} THEN 0
    ELSE LET k == CHOOSE x \in keys : TRUE
         IN Len(existingSnapshots[k]) + CountRecords(keys \ {k})

\* C23: a prior index that cannot be read, or prior entries whose snapshot
\* file cannot be read, do not make the rebuild fail; every prior entry whose
\* snapshot file can be read is loaded, and a raw file for which no loaded
\* entry has its key and hash gets its modification time as uploadedAt and
\* the storage filename made of its snapshotDate and that time.
C23_MissingPriorIsCacheMiss ==
    /\ (pc = "idle" /\ lastStatus = "failed") =>
          \E f \in Files : runRaw[f] # 0 /\ ~MatchesPattern(f)
    /\ pc = "loaded" =>
          /\ \A i \in 1..Len(ReadableEntries(before.arts)) :
                LET loaded == LoadedAs(ReadableEntries(before.arts)[i], before.arts)
                IN \E k \in 1..Len(Bucket(existingSnapshots, loaded.key)) :
                      existingSnapshots[loaded.key][k] = loaded
          /\ CountRecords(DOMAIN existingSnapshots) = Len(ReadableEntries(before.arts))
    /\ pc \in {"listed", "computed"} =>
          \A r \in 1..Len(records) :
              LET meta == records[r].payload.meta
                  mtime == rawDir[meta.sourceFile][1].mtime
                  matches ==
                      {i \in 1..Len(ReadableEntries(before.arts)) :
                          LET loaded == LoadedAs(ReadableEntries(before.arts)[i],
                                                 before.arts)
                          IN /\ loaded.key = makeExistingKey(meta.sourceFile,
                                                             meta.snapshotDate)
                             /\ loaded.hash = hashItems(records[r].payload.items)}
              IN matches = {} =>
                    /\ meta.uploadedAt = mtime
                    /\ records[r].jsonFileName =
                          generateSnapshotFileName(meta.snapshotDate, mtime)

\* the second rebuild of two touched files after the snapshot file of one was
\* lost: that one gets its new modification time, the other keeps its identity
C23_Witness ==
    /\ TwoRuns
    /\ Len(IndexEntries(before.arts.index)) = 2
    /\ Len(ReadableEntries(before.arts)) = 1
    /\ Len(IndexEntries(indexFile)) = 2
    /\ \E i, j \in 1..2 :
          /\ rawDir[IndexEntries(indexFile)[i].sourceFile][1].mtime
                # IndexEntries(before.arts.index)[i].uploadedAt
          /\ IndexEntries(indexFile)[i].uploadedAt
                = rawDir[IndexEntries(indexFile)[i].sourceFile][1].mtime
          /\ IndexEntries(indexFile)[j] = IndexEntries(before.arts.index)[j]
          /\ i # j

\* a step that writes a snapshot, report, index or current artifact
WritesArtifact ==
    /\ Artifacts' # Artifacts
    /\ pc # "loaded"

\* the prior index and snapshot bodies are loaded before anything is cleared
\* or written
LoadedFirst == Artifacts' # Artifacts => pc # "idle"

\* the index is written once, after the reports were computed (or as the empty
\* index of an empty raw directory), and then only report and current
\* artifacts are written
IndexWrittenOnce ==
    /\ indexFile' # indexFile =>
          \/ pc = "computed"
          \/ pc = "listed" /\ csvFiles = <<>>
    /\ pc \in {"indexed", "reported"} =>
          /\ indexFile' = indexFile
          /\ snapshotDir' = snapshotDir

\* C24: the phases of one rebuild are strictly ordered: loading comes before
\* any clearing or writing, no artifact is written until every raw file is
\* parsed and every report computed, and the index is written once, followed
\* only by report and current artifacts.
C24_PhasesOrdered ==
    [][/\ LoadedFirst
       /\ WritesArtifact =>
             \/ pc \in {"computed", "indexed", "reported"}
             \/ csvFiles = <<>>
       /\ IndexWrittenOnce]_vars

\* the report the batch diff builds for the payload of the preview, with the
\* baseline items as the items of the previous snapshot
BatchReportOf(payload, baselineItems) ==
    buildReport(RecordOf(payload.meta, payload.items),
                IF baselineItems = <<>> THEN NoRecord
                ELSE <<RecordOf(PreviousMeta, baselineItems)>>)

\* C25: with previousTotals equal to the totals of the previous items, the
\* interactive diff returns the report the batch diff returns for the same
\* meta, items and previous items; and processing a file in the upload panel
\* changes only errorMessage, warnings and preview of the panel, never the
\* baseline it was given nor anything the rebuild persists.
C25_PanelDiffAsBatchDiff ==
    [][panel' # panel =>
         /\ panel'.preview # <<>> =>
               panel'.preview[1].report =
                   BatchReportOf(panel'.preview[1].payload, upload[1].baselineItems)
         /\ DOMAIN panel' = {"errorMessage", "warnings", "preview"}
         /\ UNCHANGED <<upload, ingested, pipelineVars>>]_vars

\* a preview against a baseline given with its report: one item rose, one
\* is new, one is gone
C25_Witness ==
    /\ upload # <<>>
    /\ upload[1].baselineReport # <<>>
    /\ panel.preview # <<>>
    /\ panel.preview[1].report.counts.increased = 1
    /\ panel.preview[1].report.counts.new = 1
    /\ panel.preview[1].report.counts.removed = 1
    /\ panel.preview[1].report.totals.deltaItems = 0

\* C26: when the App loads the artifacts of a successful rebuild without an
\* error and latest-report.json holds a report, the report it shows is the
\* report of the snapshot it shows: report.meta equals latestMeta.
C26_ReportOfShownSnapshot ==
    [][(/\ app.loading /\ ~app'.loading
        /\ lastStatus = "ok"
        /\ app'.errorMessage = ""
        /\ IsObject(latestReportFile)) =>
            app'.report[1].meta = app'.latestMeta[1]]_vars

\* the entry of the index for a raw file keeps the uploadedAt and the storage
\* filename it has in the prior index
KeepsIdentity(sourceFile) ==
    /\ Len(EntriesOf(indexFile, sourceFile)) = 1
    /\ EntriesOf(indexFile, sourceFile)[1].uploadedAt
          = EntriesOf(before.arts.index, sourceFile)[1].uploadedAt
    /\ EntriesOf(indexFile, sourceFile)[1].path
          = EntriesOf(before.arts.index, sourceFile)[1].path

\* C27: the rebuild that follows a rebuild aborted by a badly named file
\* gives every raw file whose content is that of the last successful rebuild
\* the uploadedAt and the storage filename that rebuild recorded in the
\* index, whatever became of the modification times.
C27_ReuseSurvivesFailedRun ==
    (Finished /\ before.status = "failed" /\ before.arts.index # <<>>) =>
        \A f \in Files :
            (/\ EntriesOf(before.arts.index, f) # <<>>
             /\ before.raw[f] = runRaw[f]
             /\ runRaw[f] # 0) => KeepsIdentity(f)

\* every entry of the four lists of a report
AllEntries(report) ==
    {report.newItems[i] : i \in 1..Len(report.newItems)}
        \cup {report.removedItems[i] : i \in 1..Len(report.removedItems)}
        \cup {report.increases[i] : i \in 1..Len(report.increases)}
        \cup {report.decreases[i] : i \in 1..Len(report.decreases)}

DeltaConsistent(report) ==
    \A e \in AllEntries(report) : e.delta = e.quantity - e.previousQuantity

\* C28: in every ChangeEntry of every list of a report, delta is the
\* difference of the quantity and the previousQuantity of that entry, also
\* for input quantities with more than three fractional digits.
C28_DeltaOfOwnFields ==
    probeOut # <<>> =>
        /\ DeltaConsistent(probeOut[1].script)
        /\ DeltaConsistent(probeOut[1].lib)

\* the place of the item of a name in the list the loop went through
PlaceIn(items, name) == CHOOSE i \in 1..Len(items) : items[i].name = name

\* entries of equal keys stand in the order of the loop, or in its reverse
TiesInLoopOrder(list, Key(_), items, reversed) ==
    \A i, j \in 1..Len(list) :
        (i < j /\ Key(list[i]) = Key(list[j])) =>
            IF reversed
            THEN PlaceIn(items, list[i].name) > PlaceIn(items, list[j].name)
            ELSE PlaceIn(items, list[i].name) < PlaceIn(items, list[j].name)

TiesAsSorted(report, current, previous) ==
    /\ TiesInLoopOrder(report.decreases, LAMBDA e : Abs(e.delta), current, TRUE)
    /\ TiesInLoopOrder(report.increases, LAMBDA e : e.delta, current, FALSE)
    /\ TiesInLoopOrder(report.newItems, LAMBDA e : e.quantity, current, FALSE)
    /\ TiesInLoopOrder(report.removedItems, LAMBDA e : e.previousQuantity,
                       previous, FALSE)

\* C29: decreases of equal |delta| stand in the reverse of the order in which
\* they were classified (the descending order of their names), as the list is
\* sorted ascending by |delta| and then reversed; in newItems, removedItems
\* and increases entries of equal keys keep the order of classification.
C29_DecreaseTiesReversed ==
    probeOut # <<>> =>
        /\ TiesAsSorted(probeOut[1].script, probe[1].current, ProbePrevious)
        /\ TiesAsSorted(probeOut[1].lib, probe[1].current, ProbePrevious)

\* decreases classified as A, B, C with deltas -0.009, -0.008, -0.009 come
\* out as C, A, B
C29_Witness ==
    /\ probeOut # <<>>
    /\ probe[1] \in OrderingInputs
    /\ [i \in 1..Len(probeOut[1].script.decreases) |->
          probeOut[1].script.decreases[i].name] = <<"C", "A", "B">>
    /\ [i \in 1..Len(probeOut[1].script.decreases) |->
          probeOut[1].script.decreases[i].delta] = <<-90, -90, -80>>
    /\ probeOut[1].lib.decreases = probeOut[1].script.decreases

\* every call of processFile has run to its end
Settled == dropped # <<>> /\ pending = {}

\* C30: when processFile was started for one file and then for another while
\* the first was still being read, the panel ends with the preview, warnings
\* and errorMessage of the file dropped last, whichever read ends first.
C30_LastDropWins ==
    Settled => \E now \in Times : panel = processFile(Last(dropped), now)

====
